---- MODULE Spec2Model ----
(***************************************************************************)
(* Model of run.py, the OMNIA Control Protocol real-time demo: a tkinter   *)
(* window whose enable button starts one daemon thread running             *)
(* enable_click, which connects, writes the enable command, shows the      *)
(* first reply and then hands every recv() result to parse_xml.            *)
(*                                                                         *)
(* A byte string is a sequence of lexical units: a start tag, an end tag,  *)
(* one character of text, or the byte 0xFF (never valid in UTF-8).  A      *)
(* socket read may end between any two units, so a read can end inside an  *)
(* element, inside a text or between two documents.                        *)
(***************************************************************************)
EXTENDS Integers, Sequences, FiniteSets, TLC

(***************************************************************************)
(* Bounds of the model                                                     *)
(***************************************************************************)
\* number of documents the peer pushes after its first reply
MaxSends == 2

(***************************************************************************)
(* Program constants                                                       *)
(***************************************************************************)
\* bufsize argument of both s.recv calls
RecvBufSize == 1024
\* largest port socket.connect accepts before raising OverflowError
MaxPort == 65535

\* the units of a byte string
Tag(n) == [k |-> "start", v |-> n]
End(n) == [k |-> "end", v |-> n]
Char(c) == [k |-> "char", v |-> c]
BadByte == [k |-> "bad", v |-> "xFF"]

Digits == <<"0", "1", "2", "3", "4", "5", "6", "7", "8", "9">>
DigitSet == {Digits[i] : i \in 1..10}

\* Python's None, for an Element and for a text
NoElement == [tag |-> "", text |-> <<>>, children |-> <<>>]
NoText == [none |-> TRUE, v |-> <<>>]
SomeText(s) == [none |-> FALSE, v |-> s]

NoExc == [type |-> "", site |-> ""]
Raise(t, where) == [type |-> t, site |-> where]

(***************************************************************************)
(* ET.fromstring: expat over the units of one byte string.  The parser     *)
(* state is the stack of open elements, the finished root                  *)
(* and whether a ParseError was raised (the message and position of the    *)
(* error are not modelled: no code path reads them).                       *)
(***************************************************************************)
ParserInit == [stack |-> <<>>, root |-> NoElement, err |-> FALSE]

NewElement(name) == [tag |-> name, text |-> <<>>, children |-> <<>>]

\* character data: Element.text is the data before the first child; data
\* after a child is that child's tail, which parse_xml never reads
AddText(e, c) == IF e.children = <<>> THEN [e EXCEPT !.text = Append(@, c)] ELSE e

\* an end tag closes the element on top of the stack
CloseTop(p) ==
    LET n == Len(p.stack)
        e == p.stack[n]
    IN IF n = 1
       THEN [p EXCEPT !.stack = <<>>, !.root = e]
       ELSE [p EXCEPT !.stack = Append(SubSeq(p.stack, 1, n - 2),
                                       [p.stack[n - 1] EXCEPT !.children = Append(@, e)])]

ParserFeed(p, u) ==
    LET n == Len(p.stack)
        bad == [p EXCEPT !.err = TRUE]
    IN IF p.err \/ u.k = "bad" THEN bad
       ELSE IF u.k = "start" THEN
            \* a second root element: junk after document element
            IF n = 0 /\ p.root # NoElement THEN bad
            ELSE [p EXCEPT !.stack = Append(@, NewElement(u.v))]
       \* text or an end tag outside the root element
       ELSE IF n = 0 THEN bad
       ELSE IF u.k = "end" THEN
            \* an end tag must name the element on top of the stack
            IF u.v = p.stack[n].tag THEN CloseTop(p) ELSE bad
       ELSE [p EXCEPT !.stack[n] = AddText(@, u.v)]

RECURSIVE ParserRun(_, _, _)
ParserRun(p, bytes, i) ==
    IF i > Len(bytes) \/ p.err THEN p
    ELSE LET q == ParserFeed(p, bytes[i])
         IN IF q.err THEN q ELSE ParserRun(q, bytes, i + 1)

\* the end of the input: an open element or no element at all is a
\* ParseError
ParserClose(p) ==
    IF p.err THEN p
    ELSE IF p.stack # <<>> \/ p.root = NoElement THEN [p EXCEPT !.err = TRUE]
    ELSE p

\* [err |-> FALSE, root |-> the tree] or [err |-> TRUE]: a ParseError
FromString(bytes) == ParserClose(ParserRun(ParserInit, bytes, 1))

(***************************************************************************)
(* Element.find(".//SetRealTimeInfo") and Element.findtext                 *)
(***************************************************************************)
\* the first element with the tag among the descendants of an element, in
\* document order; the element itself is not a candidate
RECURSIVE FindIn(_, _, _)
FindIn(children, i, tag) ==
    IF i > Len(children) THEN NoElement
    ELSE IF children[i].tag = tag THEN children[i]
    ELSE LET below == FindIn(children[i].children, 1, tag)
         IN IF below # NoElement THEN below ELSE FindIn(children, i + 1, tag)

Find(root, tag) == FindIn(root.children, 1, tag)

\* the text of the first direct child with the tag ("" when it has none),
\* None when there is no such child
RECURSIVE FindTextIn(_, _, _)
FindTextIn(children, i, tag) ==
    IF i > Len(children) THEN NoText
    ELSE IF children[i].tag = tag THEN SomeText(children[i].text)
    ELSE FindTextIn(children, i + 1, tag)

FindText(e, tag) == FindTextIn(e.children, 1, tag)

\* the test of line 50 left out
IsFoundAlways(e) == TRUE

\* "if set_real_time_info is not None"
IsFound(e) == e # NoElement

(***************************************************************************)
(* float(), round(x, 1) and the str() of the float that Text.insert shows  *)
(***************************************************************************)
DigitValue(c) == CHOOSE d \in 0..9 : Digits[d + 1] = c

RECURSIVE CountOf(_, _)
CountOf(s, c) ==
    IF s = <<>> THEN 0 ELSE (IF Head(s) = c THEN 1 ELSE 0) + CountOf(Tail(s), c)

\* the texts float() accepts, among the texts made of the model's units: an
\* optional integer part, an optional point, an optional fraction, at least
\* one digit (signs, exponents, blanks, "inf" and "nan" need other units)
IsFloatText(t) ==
    /\ ~t.none
    /\ \A i \in 1..Len(t.v) : t.v[i] \in DigitSet \cup {"."}
    /\ CountOf(t.v, ".") <= 1
    /\ Len(t.v) - CountOf(t.v, ".") >= 1

\* float(None) is a TypeError, float of any other text a ValueError
FloatError(t) == IF t.none THEN "TypeError" ELSE "ValueError"

RECURSIVE IntOf(_, _)
IntOf(s, acc) == IF s = <<>> THEN acc ELSE IntOf(Tail(s), acc * 10 + DigitValue(Head(s)))

PointAt(s) == IF CountOf(s, ".") = 0 THEN Len(s) + 1 ELSE CHOOSE i \in 1..Len(s) : s[i] = "."

\* the digits after the first decimal dropped instead of rounded
RoundTenthsDown(s) ==
    LET p == IF CountOf(s, ".") = 0 THEN Len(s) + 1 ELSE CHOOSE i \in 1..Len(s) : s[i] = "."
        frac == SubSeq(s, p + 1, Len(s))
    IN IntOf(SubSeq(s, 1, p - 1), 0) * 10 + (IF Len(frac) >= 1 THEN DigitValue(frac[1]) ELSE 0)

\* round(float(text), 1) in tenths.  The digits after the first decimal
\* decide the direction; a text whose remaining digits are exactly 5 lies on
\* the boundary of two tenths, where the direction is decided by the binary
\* value of the float (0.25 -> 0.2, 0.75 -> 0.8): only these two fractions
\* are rounded here, and no document of the model holds another such text.
RoundTenths(s) ==
    LET p == PointAt(s)
        whole == IntOf(SubSeq(s, 1, p - 1), 0)
        frac == SubSeq(s, p + 1, Len(s))
        d1 == IF Len(frac) >= 1 THEN DigitValue(frac[1]) ELSE 0
        rest == IntOf(SubSeq(frac, 2, Len(frac)), 0)
        half == IF Len(frac) >= 2 THEN 5 * 10 ^ (Len(frac) - 2) ELSE 1
        up == IF rest > half THEN 1
              ELSE IF rest < half \/ Len(frac) < 2 THEN 0
              ELSE IF d1 % 2 = 1 THEN 1 ELSE 0
    IN whole * 10 + d1 + up

RECURSIVE IntDigits(_)
IntDigits(n) == IF n < 10 THEN <<Digits[n + 1]>> ELSE Append(IntDigits(n \div 10), Digits[(n % 10) + 1])

\* str(x) of a float with one decimal: "1.7", "17.0", "0.7"
FormatTenths(n) == IntDigits(n \div 10) \o <<".", Digits[(n % 10) + 1]>>

\* what lines 59, 64 and 74 insert
RoundedText(t) == FormatTenths(RoundTenths(t.v))

(***************************************************************************)
(* The six fields of parse_xml, in the order of its statements             *)
(***************************************************************************)
FieldTags == <<"TimeStamp", "VO2", "VCO2", "PHASE", "VE", "HR">>
NumFields == 6
\* the fields whose text goes through round(float(...), 1)
IsNumeric(i) == FieldTags[i] \in {"VO2", "VCO2", "VE"}

(***************************************************************************)
(* Byte strings of the wire                                                *)
(***************************************************************************)
Elem(n, body) == <<Tag(n)>> \o body \o <<End(n)>>

\* the bytes of a text, one unit per character
Text(cs) == [i \in 1..Len(cs) |-> Char(cs[i])]

\* line 105: the enable command
EnableCommand ==
    Elem("OmniaXB", Elem("System", Elem("EnableRealTimeInformation", Elem("Enabled", Text(<<"1">>)))))

\* the children of a SetRealTimeInfo element, from <<tag, text>> pairs
RECURSIVE Children(_)
Children(fs) ==
    IF fs = <<>> THEN <<>> ELSE Elem(fs[1][1], Text(fs[1][2])) \o Children(Tail(fs))

InfoDoc(fs) == Elem("OmniaXB", Elem("SetRealTimeInfo", Children(fs)))

\* two complete real-time documents with different values in every field
FrameA ==
    InfoDoc(<< <<"TimeStamp", <<"1">> >>, <<"VO2", <<"1", ".", "7", "1">> >>,
               <<"VCO2", <<"7">> >>, <<"PHASE", <<"a">> >>,
               <<"VE", <<".", "6">> >>, <<"HR", <<"a">> >> >>)
FrameB ==
    InfoDoc(<< <<"TimeStamp", <<"2">> >>, <<"VO2", <<"3", "8">> >>,
               <<"VCO2", <<"9">> >>, <<"PHASE", <<"b">> >>,
               <<"VE", <<"4", ".">> >>, <<"HR", <<"8">> >> >>)
\* VO2 is not a number
FrameBadVO2 == InfoDoc(<< <<"TimeStamp", <<"3">> >>, <<"VO2", <<"a">> >> >>)
\* VO2 is missing
FrameNoVO2 == InfoDoc(<< <<"TimeStamp", <<"4">> >> >>)
\* a well-formed document of another message type
OtherDoc == Elem("OmniaXB", Elem("System", <<>>))
\* the start of a document whose root element is never closed
OpenDoc == <<Tag("OmniaXB"), Tag("System")>>

\* what the peer may push after its first reply, in any order
Docs == {FrameA, FrameB, FrameBadVO2, FrameNoVO2, OtherDoc, OpenDoc}

\* first replies: a text, and a byte string that is not UTF-8
AckText == Text(<<"O", "K">>)
AckBad == <<BadByte>>
Acks == {AckText, AckBad}

\* the six children of a SetRealTimeInfo element, from their six texts
Six(t) ==
    << <<"TimeStamp", t[1]>>, <<"VO2", t[2]>>, <<"VCO2", t[3]>>, <<"PHASE", t[4]>>,
       <<"VE", t[5]>>, <<"HR", t[6]>> >>

Info(t) == Elem("SetRealTimeInfo", Children(Six(t)))

\* the texts of the round trip example and of three more records
ExampleTexts ==
    << <<"0", "0", ":", "0", "1", ":", "2", "3">>, <<"2", "3", "4", "5", ".", "6", "7", "8">>,
       <<"1", "9", "8", "7", ".", "3", "2", "1">>, <<"E", "X">>,
       <<"4", "5", ".", "6", "7", "8", "9">>, <<"1", "4", "2">> >>
CarryTexts == << <<"5">>, <<"1", "9", ".", "9", "6">>, <<".", "9", "7">>, <<"c">>, <<"3">>, <<>> >>
BlankTexts == << <<>>, <<"0", ".", "0", "4">>, <<"6", ".">>, <<>>, <<"8", ".", "1">>, <<"x">> >>
OtherTexts == << <<"9">>, <<"2">>, <<"2">>, <<"d">>, <<"2">>, <<"2">> >>

\* SetRealTimeInfo two levels below the root (the round trip example)
ExampleFrame == Elem("OmniaXB", Elem("RealTimeData", Info(ExampleTexts)))
\* SetRealTimeInfo after a sibling subtree
SiblingFrame == Elem("OmniaXB", Elem("System", Elem("Enabled", Text(<<"1">>))) \o Info(CarryTexts))
\* two SetRealTimeInfo elements: the first in document order is the nested one
TwoInfoFrame ==
    Elem("OmniaXB", Elem("RealTimeData", Info(BlankTexts)) \o Info(OtherTexts))
\* SetRealTimeInfo is the root element itself
RootFrame == Info(CarryTexts)

\* the documents the decoder is exercised on, one at a time
DecodeFrames == {ExampleFrame, SiblingFrame, TwoInfoFrame, RootFrame, FrameA, FrameB}

\* what the user may type into the two entry boxes
HostTexts == {"127.0.0.1", "no.such.host"}
PortTexts == {<<"1", "2", "3", "4">>, <<"7", "0", "0", "0", "0">>, <<"a">>, <<>>}
\* the hosts the resolver knows
ResolvableHosts == {"127.0.0.1"}

(***************************************************************************)
(* int() of the port entry, bytes.decode('utf-8')                          *)
(***************************************************************************)
\* the texts int() accepts, among the texts of PortTexts
IsIntText(s) == s # <<>> /\ \A i \in 1..Len(s) : s[i] \in DigitSet

\* decode raises UnicodeDecodeError on a byte that is not UTF-8
Utf8Ok(bytes) == \A i \in 1..Len(bytes) : bytes[i] # BadByte

Min(a, b) == IF a < b THEN a ELSE b

(***************************************************************************)
(* State                                                                   *)
(***************************************************************************)
VARIABLES
    button,      \* button_enable["state"]
    eb_ip,       \* text of the IP address entry
    eb_port,     \* text of the port entry
    started,     \* the one Thread object of line 158 has been started
    cbError,     \* a click raised RuntimeError inside the Tk callback
    runs,        \* number of times enable_click has been entered
    ctx,         \* the execution context enable_click runs in
    pc,          \* where the thread is in enable_click / parse_xml
    ip_address,  \* local of enable_click
    port,        \* local of enable_click
    sock,        \* "none", "open" (created), "connected", "closed"
    written,     \* the byte strings sendall has written
    inflight,    \* bytes the peer has written and no recv has returned yet
    replied,     \* the peer has written its first reply
    nSent,       \* number of documents the peer has pushed
    peerClosed,  \* the peer has closed its end
    reads,       \* what each recv returned, in order (the first is the reply)
    data,        \* local of enable_click: the chunk of the last recv
    parseCalls,  \* the arguments of the calls of parse_xml, in order
    tb_status,   \* content of the status text box
    tb,          \* content of the six data text boxes, by field index
    elem,        \* local of parse_xml: set_real_time_info
    fld,         \* index of the field parse_xml is at
    exc          \* the exception that ended enable_click, if any

vars == <<button, eb_ip, eb_port, started, cbError, runs, ctx, pc, ip_address, port, sock, written,
          inflight, replied, nSent, peerClosed, reads, data, parseCalls, tb_status, tb, elem, fld, exc>>

threadVars == <<runs, ctx>>
uiVars == <<button, eb_ip, eb_port, started, cbError, threadVars>>
netVars == <<sock, written, inflight, replied, nSent, peerClosed, reads>>
parseVars == <<data, parseCalls, tb, elem, fld>>

\* contents of the status box: the initial text, the first reply, str(e)
StatusInit == [kind |-> "init", text |-> <<>>, type |-> ""]
StatusReply(text) == [kind |-> "reply", text |-> text, type |-> ""]
StatusExc(e) == [kind |-> "exc", text |-> <<>>, type |-> e.type]

Init ==
    /\ button = "normal"
    /\ eb_ip = "127.0.0.1"
    /\ eb_port = <<"1", "2", "3", "4">>
    /\ started = FALSE
    /\ cbError = FALSE
    /\ runs = 0
    /\ ctx = "none"
    /\ pc = "idle"
    /\ ip_address = ""
    /\ port = 0
    /\ sock = "none"
    /\ written = <<>>
    /\ inflight = <<>>
    /\ replied = FALSE
    /\ nSent = 0
    /\ peerClosed = FALSE
    /\ reads = <<>>
    /\ data = <<>>
    /\ parseCalls = <<>>
    /\ tb_status = StatusInit
    /\ tb = [i \in 1..NumFields |-> <<>>]
    /\ elem = NoElement
    /\ fld = 0
    /\ exc = NoExc

(***************************************************************************)
(* The user and the Tk event loop                                          *)
(***************************************************************************)
\* the button's command run by the Tk event loop itself
StartContextMainloop == "mainloop"

\* line 158: the command starts a threading.Thread whose target is
\* enable_click, so the routine runs in a thread of its own
StartContext == "thread"

\* the Tk event loop handles the next event only when no callback is running
\* inside it
UiFree == ctx # "mainloop" \/ pc \in {"idle", "done"}

\* the user replaces the text of an entry box; the boxes are read once, at
\* lines 101-102, and what is typed after that is not followed
EditHost(h) ==
    /\ UiFree
    /\ pc \in {"idle", "start", "config"}
    /\ eb_ip' = h
    /\ UNCHANGED <<button, eb_port, started, cbError, pc, ip_address, port, exc, tb_status>>
    /\ UNCHANGED <<threadVars, netVars, parseVars>>

EditPort(p) ==
    /\ UiFree
    /\ pc \in {"idle", "start", "config"}
    /\ eb_port' = p
    /\ UNCHANGED <<button, eb_ip, started, cbError, pc, ip_address, port, exc, tb_status>>
    /\ UNCHANGED <<threadVars, netVars, parseVars>>

\* line 158: the button's command is the start method of one Thread object;
\* Tk does not invoke the command of a disabled button
ClickStart ==
    /\ UiFree
    /\ button = "normal"
    /\ ~started
    /\ started' = TRUE
    /\ runs' = runs + 1
    /\ ctx' = StartContext
    /\ pc' = "start"
    /\ UNCHANGED <<button, eb_ip, eb_port, cbError, ip_address, port, exc, tb_status>>
    /\ UNCHANGED <<netVars, parseVars>>

\* a command that makes a new Thread at every click: enable_click is entered
\* again (counted up to 2)
ClickAgainRestart ==
    /\ UiFree
    /\ button = "normal"
    /\ started
    /\ runs' = IF runs < 2 THEN runs + 1 ELSE runs
    /\ pc' = "start"
    /\ UNCHANGED <<button, eb_ip, eb_port, started, cbError, ctx, ip_address, port, exc,
                   tb_status>>
    /\ UNCHANGED <<netVars, parseVars>>

\* a second start of the same Thread raises RuntimeError in the Tk callback
ClickAgain ==
    /\ UiFree
    /\ button = "normal"
    /\ started
    /\ cbError' = TRUE
    /\ UNCHANGED <<button, eb_ip, eb_port, started, pc, ip_address, port, exc, tb_status>>
    /\ UNCHANGED <<threadVars, netVars, parseVars>>

(***************************************************************************)
(* enable_click                                                            *)
(***************************************************************************)
\* a handler inside the loop of line 124: the exception is shown and the
\* loop goes on
ExceptResume(e) ==
    /\ tb_status' = StatusExc(e)
    /\ sock' = sock
    /\ pc' = IF pc \in {"recv", "parse", "delete", "insert"} THEN "recv" ELSE "done"
    /\ exc' = e

\* the handler without the with block around it: the socket stays as it is
ExceptLeak(e) ==
    /\ tb_status' = StatusExc(e)
    /\ sock' = sock
    /\ pc' = "done"
    /\ exc' = e

\* lines 128-131 and the exit of the with block of line 110: the exception is
\* shown in the status box, the socket is closed, the routine returns
Except(e) ==
    /\ tb_status' = StatusExc(e)
    /\ sock' = "closed"
    /\ pc' = "done"
    /\ exc' = e

\* line 98
Disable ==
    /\ pc = "start"
    /\ button' = "disabled"
    /\ pc' = "config"
    /\ UNCHANGED <<eb_ip, eb_port, started, cbError, ip_address, port, exc, tb_status>>
    /\ UNCHANGED <<threadVars, netVars, parseVars>>

\* lines 101-102: int() is outside the try block, so its ValueError ends the
\* thread without reaching the handler
ReadConfig ==
    /\ pc = "config"
    /\ ip_address' = eb_ip
    /\ IF IsIntText(eb_port)
       THEN /\ port' = IntOf(eb_port, 0)
            /\ pc' = "connect"
            /\ exc' = exc
       ELSE /\ port' = port
            /\ pc' = "done"
            /\ exc' = Raise("ValueError", "int")
    /\ UNCHANGED <<uiVars, tb_status, netVars, parseVars>>

\* lines 110-113: the socket is created, then connected
Connect ==
    /\ pc = "connect"
    /\ \/ /\ port \in 0..MaxPort
          /\ ip_address \in ResolvableHosts
          /\ sock' = "connected"
          /\ pc' = "send"
          /\ UNCHANGED <<exc, tb_status>>
       \/ /\ port \notin 0..MaxPort
          /\ Except(Raise("OverflowError", "connect"))
       \/ /\ port \in 0..MaxPort
          /\ Except(Raise("OSError", "connect"))
    /\ UNCHANGED <<uiVars, ip_address, port, written, inflight, replied, nSent, peerClosed, reads>>
    /\ UNCHANGED parseVars

\* the reply awaited before the command has been written
SendSkipped ==
    /\ pc = "send"
    /\ pc' = "recv_ack"
    /\ UNCHANGED <<uiVars, ip_address, port, exc, tb_status, netVars, parseVars>>

\* line 116
Send ==
    /\ pc = "send"
    /\ \/ /\ written' = Append(written, EnableCommand)
          /\ pc' = "recv_ack"
          /\ UNCHANGED <<exc, tb_status, sock>>
       \/ /\ Except(Raise("OSError", "sendall"))
          /\ UNCHANGED written
    /\ UNCHANGED <<uiVars, ip_address, port, inflight, replied, nSent, peerClosed, reads>>
    /\ UNCHANGED parseVars

\* s.recv(1024) returns a non-empty prefix of what has arrived, at most
\* RecvBufSize long, or the empty byte string once the peer has closed and
\* everything was read; with nothing to return it blocks
RecvReturns(chunk) ==
    \/ /\ inflight # <<>>
       /\ \E k \in 1..Min(Len(inflight), RecvBufSize) : chunk = SubSeq(inflight, 1, k)
    \/ /\ inflight = <<>>
       /\ peerClosed
       /\ chunk = <<>>

Chunks == {SubSeq(inflight, 1, k) : k \in 0..Len(inflight)}

\* lines 119-121: the first reply goes to the status box
RecvAck ==
    /\ pc = "recv_ack"
    /\ \/ \E chunk \in Chunks :
             /\ RecvReturns(chunk)
             /\ reads' = Append(reads, chunk)
             /\ inflight' = SubSeq(inflight, Len(chunk) + 1, Len(inflight))
             /\ IF Utf8Ok(chunk)
                THEN /\ tb_status' = StatusReply(chunk)
                     /\ pc' = "recv"
                     /\ UNCHANGED <<exc, sock>>
                ELSE Except(Raise("UnicodeDecodeError", "decode"))
       \/ /\ Except(Raise("OSError", "recv"))
          /\ UNCHANGED <<reads, inflight>>
    /\ UNCHANGED <<uiVars, ip_address, port, written, replied, nSent, peerClosed>>
    /\ UNCHANGED parseVars

\* line 125
Recv ==
    /\ pc = "recv"
    /\ \/ \E chunk \in Chunks :
             /\ RecvReturns(chunk)
             /\ reads' = Append(reads, chunk)
             /\ inflight' = SubSeq(inflight, Len(chunk) + 1, Len(inflight))
             /\ data' = chunk
             /\ pc' = "parse"
             /\ UNCHANGED <<exc, sock, tb_status>>
       \/ /\ Except(Raise("OSError", "recv"))
          /\ UNCHANGED <<reads, inflight, data>>
    /\ UNCHANGED <<uiVars, ip_address, port, written, replied, nSent, peerClosed>>
    /\ UNCHANGED <<parseCalls, tb, elem, fld>>

(***************************************************************************)
(* parse_xml, one step per statement group                                 *)
(***************************************************************************)
\* lines 126, 44-50: the call, ET.fromstring, find, the test of the result
ParseXml ==
    /\ pc = "parse"
    /\ parseCalls' = Append(parseCalls, data)
    /\ LET r == FromString(data)
           found == Find(r.root, "SetRealTimeInfo")
       IN IF r.err
          THEN /\ Except(Raise("ParseError", "fromstring"))
               /\ UNCHANGED <<elem, fld>>
          ELSE IF IsFound(found)
          THEN /\ elem' = found
               /\ fld' = 1
               /\ pc' = "delete"
               /\ UNCHANGED <<exc, sock, tb_status>>
          ELSE /\ pc' = "recv"
               /\ UNCHANGED <<elem, fld, exc, sock, tb_status>>
    /\ UNCHANGED <<uiVars, ip_address, port, written, inflight, replied, nSent, peerClosed, reads>>
    /\ UNCHANGED <<data, tb>>

\* lines 52-53, 57-58, ...: findtext, then the field's box is emptied
FieldDelete ==
    /\ pc = "delete"
    /\ tb' = [tb EXCEPT ![fld] = <<>>]
    /\ pc' = "insert"
    /\ UNCHANGED <<uiVars, ip_address, port, exc, tb_status, netVars>>
    /\ UNCHANGED <<data, parseCalls, elem, fld>>

\* what a field's insert puts into the box, or the exception it raises:
\* float() fails on a text that is no number, Text.insert on None
FieldOutcome(e, i) ==
    LET text == FindText(e, FieldTags[i])
    IN IF IsNumeric(i)
       THEN IF IsFloatText(text) THEN [ok |-> TRUE, shown |-> RoundedText(text), type |-> ""]
            ELSE [ok |-> FALSE, shown |-> <<>>, type |-> FloatError(text)]
       ELSE IF text.none THEN [ok |-> FALSE, shown |-> <<>>, type |-> "TclError"]
            ELSE [ok |-> TRUE, shown |-> text.v, type |-> ""]

\* lines 54, 59, 64, 69, 74, 79: the conversion and the insert; after the
\* sixth field parse_xml returns to the loop of line 124
FieldInsert ==
    /\ pc = "insert"
    /\ LET out == FieldOutcome(elem, fld)
       IN IF out.ok
          THEN /\ tb' = [tb EXCEPT ![fld] = out.shown]
               /\ IF fld < NumFields
                  THEN fld' = fld + 1 /\ pc' = "delete"
                  ELSE fld' = fld /\ pc' = "recv"
               /\ UNCHANGED <<exc, sock, tb_status>>
          ELSE /\ Except(Raise(out.type, "insert"))
               /\ UNCHANGED <<tb, fld>>
    /\ UNCHANGED <<uiVars, ip_address, port, written, inflight, replied, nSent, peerClosed, reads>>
    /\ UNCHANGED <<data, parseCalls, elem>>

(***************************************************************************)
(* The peer                                                                *)
(***************************************************************************)
\* the reply to the enable command is the first thing the peer writes
PeerReply(a) ==
    /\ sock = "connected"
    /\ ~peerClosed
    /\ ~replied
    /\ replied' = TRUE
    /\ inflight' = inflight \o a
    /\ UNCHANGED <<uiVars, pc, ip_address, port, exc, tb_status, sock, written, nSent,
                   peerClosed, reads>>
    /\ UNCHANGED parseVars

\* the pushed documents follow
PeerSend(m) ==
    /\ sock = "connected"
    /\ ~peerClosed
    /\ replied
    /\ nSent < MaxSends
    /\ inflight' = inflight \o m
    /\ nSent' = nSent + 1
    /\ UNCHANGED <<uiVars, pc, ip_address, port, exc, tb_status, sock, written, replied,
                   peerClosed, reads>>
    /\ UNCHANGED parseVars

PeerClose ==
    /\ sock = "connected"
    /\ ~peerClosed
    /\ peerClosed' = TRUE
    /\ UNCHANGED <<uiVars, pc, ip_address, port, exc, tb_status, sock, written, inflight,
                   nSent, replied, reads>>
    /\ UNCHANGED parseVars

Next ==
    \/ \E h \in HostTexts : EditHost(h)
    \/ \E p \in PortTexts : EditPort(p)
    \/ ClickStart
    \/ ClickAgain
    \/ Disable
    \/ ReadConfig
    \/ Connect
    \/ Send
    \/ RecvAck
    \/ Recv
    \/ ParseXml
    \/ FieldDelete
    \/ FieldInsert
    \/ \E a \in Acks : PeerReply(a)
    \/ \E m \in Docs : PeerSend(m)
    \/ PeerClose

Spec == Init /\ [][Next]_vars

(***************************************************************************)
(* The decoder on its own: the session is in its receive loop after the    *)
(* reply "OK", and one document of DecodeFrames is on its way.             *)
(***************************************************************************)
DecodeInit ==
    /\ button = "disabled"
    /\ eb_ip = "127.0.0.1"
    /\ eb_port = <<"1", "2", "3", "4">>
    /\ started = TRUE
    /\ cbError = FALSE
    /\ runs = 1
    /\ ctx = StartContext
    /\ pc = "recv"
    /\ ip_address = "127.0.0.1"
    /\ port = 1234
    /\ sock = "connected"
    /\ written = <<EnableCommand>>
    /\ inflight \in DecodeFrames
    /\ replied = TRUE
    /\ nSent = 1
    /\ peerClosed = FALSE
    /\ reads = <<AckText>>
    /\ data = <<>>
    /\ parseCalls = <<>>
    /\ tb_status = StatusReply(AckText)
    /\ tb = [i \in 1..NumFields |-> <<>>]
    /\ elem = NoElement
    /\ fld = 0
    /\ exc = NoExc

DecodeNext ==
    \/ Recv
    \/ ParseXml
    \/ FieldDelete
    \/ FieldInsert

DecodeSpec == DecodeInit /\ [][DecodeNext]_vars

TypeOK ==
    /\ button \in {"normal", "disabled"}
    /\ pc \in {"idle", "start", "config", "connect", "send", "recv_ack", "recv", "parse",
               "delete", "insert", "done"}
    /\ sock \in {"none", "connected", "closed"}
    /\ fld \in 0..NumFields

(***************************************************************************)
(* Vocabulary of the properties                                            *)
(***************************************************************************)
\* the session states, read off the thread's position
Streaming == pc \in {"recv", "parse", "delete", "insert"}
AwaitingHandshakeAck == pc = "recv_ack"
Terminated == pc = "done"

RECURSIVE Concat(_)
Concat(ss) == IF ss = <<>> THEN <<>> ELSE Head(ss) \o Concat(Tail(ss))

\* the bytes returned by the reads of the receive loop, in order
Streamed == IF reads = <<>> THEN <<>> ELSE Concat(Tail(reads))

Last(q) == q[Len(q)]

\* the document boundaries of a byte string, by tag depth: the complete
\* top-level elements at its head, and what follows the last of them
RECURSIVE Reassemble(_, _, _, _, _)
Reassemble(bytes, i, depth, from, frames) ==
    IF i > Len(bytes) THEN [frames |-> frames, rest |-> SubSeq(bytes, from, Len(bytes))]
    ELSE LET d == IF bytes[i].k = "start" THEN depth + 1
                  ELSE IF bytes[i].k = "end" THEN depth - 1 ELSE depth
         IN IF d = 0 /\ bytes[i].k = "end"
            THEN Reassemble(bytes, i + 1, 0, i + 1, Append(frames, SubSeq(bytes, from, i)))
            ELSE Reassemble(bytes, i + 1, d, from, frames)

FramesOf(bytes) == Reassemble(bytes, 1, 0, 1, <<>>).frames
RestOf(bytes) == Reassemble(bytes, 1, 0, 1, <<>>).rest

\* one or more complete documents and nothing else
WholeDocs(bytes) ==
    /\ bytes # <<>>
    /\ RestOf(bytes) = <<>>
    /\ \A i \in 1..Len(FramesOf(bytes)) : ~FromString(FramesOf(bytes)[i]).err

\* bytes that open a root element and never close it
NeverBalanced(bytes) ==
    /\ bytes # <<>>
    /\ bytes[1].k = "start"
    /\ FramesOf(bytes) = <<>>

\* a well-formed document with a SetRealTimeInfo element anywhere in it
HasInfo(bytes) ==
    LET r == FromString(bytes)
    IN ~r.err /\ (r.root.tag = "SetRealTimeInfo" \/ Find(r.root, "SetRealTimeInfo") # NoElement)

\* a well-formed document with no SetRealTimeInfo element
Unrecognized(bytes) == ~FromString(bytes).err /\ ~HasInfo(bytes)

\* no telemetry has been shown yet
NoTelemetry == \A i \in 1..NumFields : tb[i] = <<>>

(***************************************************************************)
(* C1  Frame boundary correctness: when the bytes pushed by the peer are   *)
(* one or more complete documents, the documents handed to parse_xml are   *)
(* those documents, in order, however the reads split them, and a read     *)
(* that ends inside a document does not end the session with a parse       *)
(* error.                                                                  *)
(***************************************************************************)
C1_FrameBoundary ==
    (Len(reads) >= 2 /\ WholeDocs(Streamed \o inflight)) =>
        /\ exc.type # "ParseError"
        /\ (pc = "recv" /\ inflight = <<>>) => parseCalls = FramesOf(Streamed)

(***************************************************************************)
(* C2  Coalesced messages: when one read of the loop returns two or more   *)
(* complete documents, the session does not stop on it, and by the time    *)
(* the next read is issued each of them has been handed to parse_xml, in   *)
(* order.                                                                  *)
(***************************************************************************)
C2_Coalesced ==
    (Len(reads) >= 2 /\ WholeDocs(Streamed) /\ Len(FramesOf(Last(reads))) >= 2) =>
        /\ exc.type # "ParseError"
        /\ pc = "recv" =>
              LET n == Len(FramesOf(Last(reads)))
              IN /\ Len(parseCalls) >= n
                 /\ SubSeq(parseCalls, Len(parseCalls) - n + 1, Len(parseCalls))
                        = FramesOf(Last(reads))

(***************************************************************************)
(* C3  Per-frame decode failures are non-fatal: a frame whose VO2, VCO2 or *)
(* VE is missing or is no float never ends the session.                    *)
(***************************************************************************)
C3_DecodeNonFatal ==
    ~(Terminated /\ exc.site = "insert" /\ exc.type \in {"ValueError", "TypeError"})

(***************************************************************************)
(* C4  Unrecognized message skip: a call of parse_xml on a well-formed     *)
(* document without SetRealTimeInfo leaves the six data boxes, the status  *)
(* box and the socket as they were, and the thread goes back to the read   *)
(* of line 125.                                                            *)
(***************************************************************************)
C4_UnrecognizedSkip ==
    [][(pc = "parse" /\ pc' # "parse" /\ Unrecognized(data)) =>
           /\ pc' = "recv"
           /\ tb' = tb
           /\ tb_status' = tb_status
           /\ sock' = sock
           /\ exc' = exc]_vars

\* an unrecognized document was skipped after a frame had been shown
C4_Witness ==
    /\ pc = "recv"
    /\ Len(parseCalls) = 2
    /\ Unrecognized(parseCalls[2])
    /\ ~NoTelemetry
    /\ sock = "connected"

(***************************************************************************)
(* C5  Terminal state finality: once an exception has taken enable_click   *)
(* out of its course, the data boxes and the status box never change       *)
(* again, nothing more is read from or written to the socket, the socket   *)
(* is not reconnected and parse_xml is not called again.                   *)
(***************************************************************************)
C5_TerminalFinality ==
    [][exc # NoExc =>
           /\ exc' = exc
           /\ pc' = pc
           /\ tb' = tb
           /\ tb_status' = tb_status
           /\ reads' = reads
           /\ written' = written
           /\ sock' = sock
           /\ parseCalls' = parseCalls]_vars

\* the session stopped while bytes of the peer were still unread
C5_Witness ==
    /\ Terminated
    /\ exc.site = "fromstring"
    /\ inflight # <<>>
    /\ ~NoTelemetry

(***************************************************************************)
(* C6  Clean peer close is not an error: a read of the loop that returns   *)
(* zero bytes is not handed to parse_xml and leaves no exception in the    *)
(* status box.                                                             *)
(***************************************************************************)
C6_PeerCloseClean ==
    /\ \A i \in 1..Len(parseCalls) : parseCalls[i] # <<>>
    /\ (Len(reads) >= 2 /\ Last(reads) = <<>>) => tb_status.kind # "exc"

(***************************************************************************)
(* C7  Handshake failure on early close: when the first read returns zero  *)
(* bytes or raises, no reply is shown in the status box and the receive    *)
(* loop is never entered.                                                  *)
(***************************************************************************)
C7_HandshakeEarlyClose ==
    /\ (reads # <<>> /\ reads[1] = <<>>) =>
           /\ tb_status.kind # "reply"
           /\ ~Streaming
           /\ Len(reads) = 1
    /\ (reads = <<>> /\ exc.site = "recv") =>
           /\ tb_status.kind = "exc"
           /\ Terminated

(***************************************************************************)
(* C8  Opaque handshake acknowledgement: every non-empty first reply is    *)
(* shown in the status box as it is, UTF-8 or not, and the session enters  *)
(* the receive loop; the reply is never handed to parse_xml and no         *)
(* telemetry is shown before it.                                           *)
(***************************************************************************)
C8_OpaqueAck ==
    /\ (reads # <<>> /\ reads[1] # <<>>) => exc.type # "UnicodeDecodeError"
    /\ (Len(reads) = 1 /\ reads[1] # <<>> /\ pc = "recv") => tb_status = StatusReply(reads[1])
    /\ Len(parseCalls) <= Len(reads) - 1 \/ reads = <<>>
    /\ Len(reads) <= 1 => NoTelemetry

(***************************************************************************)
(* C9  Every terminal transition reports a reason: when enable_click has   *)
(* stopped, the status box shows the reason, never the initial text or the *)
(* reply.                                                                  *)
(***************************************************************************)
C9_ReasonReported == Terminated => tb_status.kind = "exc"

(***************************************************************************)
(* C10  Safety ceiling: no more than one read's worth of undecoded bytes   *)
(* is held, and a session stopped by bytes that open a root element and    *)
(* never close it stops with the FrameTooLarge condition.                  *)
(***************************************************************************)
C10_SafetyCeiling ==
    /\ Len(data) <= RecvBufSize
    /\ (Terminated /\ exc.site = "fromstring" /\ NeverBalanced(Streamed)) =>
           exc.type = "FrameTooLarge"

\* the six boxes as a frame with these texts in the boxes shows them
Shown(t) == [i \in 1..NumFields |-> t[i]]

\* what the boxes must show after each document of DecodeFrames, written out
ExampleShown ==
    Shown(<< <<"0", "0", ":", "0", "1", ":", "2", "3">>, <<"2", "3", "4", "5", ".", "7">>,
             <<"1", "9", "8", "7", ".", "3">>, <<"E", "X">>, <<"4", "5", ".", "7">>,
             <<"1", "4", "2">> >>)
CarryShown ==
    Shown(<< <<"5">>, <<"2", "0", ".", "0">>, <<"1", ".", "0">>, <<"c">>, <<"3", ".", "0">>, <<>> >>)
BlankShown ==
    Shown(<< <<>>, <<"0", ".", "0">>, <<"6", ".", "0">>, <<>>, <<"8", ".", "1">>, <<"x">> >>)
FrameAShown ==
    Shown(<< <<"1">>, <<"1", ".", "7">>, <<"7", ".", "0">>, <<"a">>, <<"0", ".", "6">>, <<"a">> >>)
FrameBShown ==
    Shown(<< <<"2">>, <<"3", "8", ".", "0">>, <<"9", ".", "0">>, <<"b">>, <<"4", ".", "0">>, <<"8">> >>)

\* the thread is back at the read of line 125 after parse_xml was called on doc
Decoded(doc) == pc = "recv" /\ parseCalls # <<>> /\ Last(parseCalls) = doc

(***************************************************************************)
(* C11  SetRealTimeInfo is located anywhere in the tree: whatever the      *)
(* position of the first SetRealTimeInfo element of a well-formed frame    *)
(* (two levels down, after a sibling subtree, before a second one, or the  *)
(* root itself), parse_xml shows the six fields of that element.           *)
(***************************************************************************)
C11_InfoAnywhere ==
    /\ Decoded(ExampleFrame) => tb = ExampleShown
    /\ Decoded(SiblingFrame) => tb = CarryShown
    /\ Decoded(TwoInfoFrame) => tb = BlankShown
    /\ Decoded(RootFrame) => tb = CarryShown

(***************************************************************************)
(* C12  Field typing of a decoded record: with six children and numeric    *)
(* VO2, VCO2 and VE, parse_xml raises nothing whatever the texts of        *)
(* TimeStamp, PHASE and HR are (empty or not a number included), shows     *)
(* these three as received and shows VO2, VCO2 and VE rounded to one       *)
(* decimal (2345.678 -> 2345.7, 1987.321 -> 1987.3, 45.6789 -> 45.7).      *)
(***************************************************************************)
C12_FieldTyping ==
    /\ \A doc \in {ExampleFrame, SiblingFrame, TwoInfoFrame, FrameA, FrameB} :
           (parseCalls # <<>> /\ Last(parseCalls) = doc) => exc.site # "insert"
    /\ Decoded(ExampleFrame) => tb = ExampleShown
    /\ Decoded(SiblingFrame) => tb = CarryShown
    /\ Decoded(TwoInfoFrame) => tb = BlankShown
    /\ Decoded(FrameA) => tb = FrameAShown
    /\ Decoded(FrameB) => tb = FrameBShown

\* the round trip example has been decoded and shown
C12_Witness == Decoded(ExampleFrame) /\ tb[2] = <<"2", "3", "4", "5", ".", "7">>

\* every field of a SetRealTimeInfo element converts and inserts
AllFieldsOk(e) == \A i \in 1..NumFields : FieldOutcome(e, i).ok

(***************************************************************************)
(* C13  All-or-nothing delivery of a record: a data box changes only while *)
(* parse_xml works on a frame all of whose six fields decode, so a frame   *)
(* that fails at some field leaves the boxes as they were before it.       *)
(***************************************************************************)
C13_AllOrNothing == [][tb' # tb => AllFieldsOk(elem)]_vars

(***************************************************************************)
(* C14  Handshake ordering: nothing is read before the socket is connected *)
(* and the whole enable command has been written, the command is written   *)
(* at most once, and a failed connect ends the session with nothing        *)
(* written or read.                                                        *)
(***************************************************************************)
C14_HandshakeOrder ==
    /\ (reads # <<>> \/ AwaitingHandshakeAck \/ Streaming) => written = <<EnableCommand>>
    /\ Len(written) <= 1
    /\ written # <<>> => sock \in {"connected", "closed"}
    /\ exc.site = "connect" =>
           /\ written = <<>>
           /\ reads = <<>>
           /\ Terminated
           /\ tb_status.kind = "exc"

\* the reply and a chunk of the stream have been read after the one write
C14_Witness == Len(reads) >= 2 /\ written = <<EnableCommand>> /\ Streaming

(***************************************************************************)
(* C15  Order and no loss of telemetry: when the bytes read in the loop    *)
(* are valid SetRealTimeInfo frames, however they were packed into reads,  *)
(* each frame is handed to parse_xml on its own, in order, the session     *)
(* does not stop on a parse error, and between frames the boxes show the   *)
(* last frame read.                                                        *)
(***************************************************************************)
C15_OrderNoLoss ==
    (/\ Len(reads) >= 2
     /\ WholeDocs(Streamed)
     /\ \A i \in 1..Len(FramesOf(Streamed)) : FramesOf(Streamed)[i] \in {FrameA, FrameB}) =>
        /\ exc.type # "ParseError"
        /\ pc = "recv" =>
              /\ parseCalls = FramesOf(Streamed)
              /\ tb = IF Last(parseCalls) = FrameA THEN FrameAShown ELSE FrameBShown

(***************************************************************************)
(* C16  Read loop is off the UI context: enable_click runs in one thread   *)
(* of its own, never in the Tk event loop, so the event loop is free to    *)
(* handle events while a read is blocked waiting for bytes.                *)
(***************************************************************************)
ReadBlocked == pc \in {"recv_ack", "recv"} /\ inflight = <<>> /\ ~peerClosed

C17_OneSession ==
    /\ runs <= 1
    /\ pc # "idle" => runs = 1

\* a click arrived before line 98 had disabled the button, and the one
\* session went on into its receive loop
C17_Witness == cbError /\ Streaming /\ runs = 1

(***************************************************************************)
(* C18  Socket release: once enable_click has stopped after creating the   *)
(* socket, the socket is closed; it is never closed while the session      *)
(* awaits the reply or is in its receive loop.                             *)
(***************************************************************************)
C18_SocketRelease ==
    /\ Terminated => sock \in {"none", "closed"}
    /\ (Terminated /\ exc.site # "int") => sock = "closed"
    /\ (AwaitingHandshakeAck \/ Streaming) => sock = "connected"

\* a decode exception ended the session and the socket is closed
C18_Witness == Terminated /\ exc.site = "insert" /\ sock = "closed"

(***************************************************************************)
(* C19  No torn record visible to the UI: at every moment the six data     *)
(* boxes are all empty or show the six values of one received frame.       *)
(***************************************************************************)
C19_NoTornRecord == NoTelemetry \/ tb = FrameAShown \/ tb = FrameBShown

====
